---- MODULE Spec2Model ----
(***************************************************************************)
(* A model of spmf/__init__.py: the Spmf wrapper object, its encoder       *)
(* (handle_input / write_temp_input_file), the command built by run(), the *)
(* decoder (parse_output) and the exports (to_pandas_dataframe, to_csv).   *)
(*                                                                         *)
(* Text is modelled character by character: a Python str is a sequence of  *)
(* one-character strings, so that str(), int(), str.strip(), str.split()   *)
(* and the regular expression of parse_output are computed as the code     *)
(* computes them.  A file path is text too, so that name + file_ending is  *)
(* concatenation and the empty path "" is <<>>.                            *)
(***************************************************************************)
EXTENDS Integers, Sequences, FiniteSets, TLC

VARIABLES
    is_exist_executable_,  \* __init__: spmf.jar found (after the fallback lookup)
    input_direct,          \* __init__ argument: the in-memory input
    input_type,            \* __init__ argument: "normal", "text" or anything else
    input_filename,        \* __init__ argument: a path, <<>> for ""
    input_,                \* self.input_: the path handle_input returned
    tempfiles,             \* the files write_temp_input_file created, in order
    memory_,               \* self.memory_
    arguments_,            \* self.arguments_
    cmd,                   \* the argv of the last subprocess.check_output call
    engine_lines,          \* what the engine wrote, line by line, as structure
    output_file,           \* the text of the file self.output_ names
    parsed_output_,        \* self.parsed_output_
    df_,                   \* self.df_: None or the rows of the DataFrame
    pkl_file,              \* the pickle file: None or the rows written
    csv_file,              \* the csv file: None or the rows written
    call_args,             \* the arguments of the last to_pandas_dataframe or to_csv call
    decoded,               \* the last call opened and read self.output_
    exc,                   \* the exception the last call raised, "none" if none
    lastOp                 \* the last method called

vars == <<is_exist_executable_, input_direct, input_type, input_filename,
          input_, tempfiles, memory_, arguments_, cmd, engine_lines,
          output_file, parsed_output_, df_, pkl_file, csv_file, call_args,
          decoded, exc, lastOp>>

(***************************************************************************)
(* Bounds of the model.                                                    *)
(***************************************************************************)
MaxSeqs == 1          \* sequences in an encoder input
MaxItemsets == 1      \* itemsets in a sequence of an encoder input
MaxItemsetLen == 1    \* items in an itemset of an encoder input
MaxOutLines == 2      \* lines of an output artifact given to the decoder alone
MaxOutItemsets == 2   \* itemsets in a line of such an artifact
MaxOutItemsetLen == 2 \* items in an itemset of such a line
MaxLines == 2         \* lines of an output artifact in the object's life cycle
MaxArgs == 2          \* extra arguments of the command

Items == {0, 1, 12}   \* the items of encoder inputs, one of them of two digits
OutItems == {1, 12}   \* the items of the lines given to the decoder alone

\* Python's None where a DataFrame may stand, and a DataFrame of rows.
None == [none |-> TRUE, rows |-> <<>>]
DataFrame(rows) == [none |-> FALSE, rows |-> rows]

\* The file self.output_ names when there is none.
NoFile == [exists |-> FALSE, text |-> <<>>]

(***************************************************************************)
(* Characters and text.                                                    *)
(***************************************************************************)
Digits == <<"0", "1", "2", "3", "4", "5", "6", "7", "8", "9">>
DigitChars == {Digits[i] : i \in 1..10}
Whitespace == {" ", "\n", "\t"}
SP == <<" ">>
NL == <<"\n">>

IsDigit(c) == c \in DigitChars
DigitVal(c) == (CHOOSE i \in 1..10 : Digits[i] = c) - 1

\* str(n) of a natural number: its decimal digits.
RECURSIVE NatStr(_)
NatStr(n) == IF n < 10 THEN <<Digits[n + 1]>>
             ELSE NatStr(n \div 10) \o <<Digits[(n % 10) + 1]>>

\* str(item) of the code, for an int.
Str(n) == IF n < 0 THEN <<"-">> \o NatStr(-n) ELSE NatStr(n)

\* The value of a non-empty run of decimal digits.
RECURSIVE DigitsVal(_)
DigitsVal(s) == IF Len(s) = 0 THEN 0
                ELSE 10 * DigitsVal(SubSeq(s, 1, Len(s) - 1)) + DigitVal(s[Len(s)])

AllDigits(s) == \A i \in 1..Len(s) : IsDigit(s[i])

Min(S) == CHOOSE i \in S : \A j \in S : i <= j
Max(S) == CHOOSE i \in S : \A j \in S : j <= i

\* The text between the first and the last of the positions kept.
Between(s, keep) == IF keep = {} THEN <<>> ELSE SubSeq(s, Min(keep), Max(keep))

\* str.strip(): leading and trailing whitespace removed.
Strip(s) == Between(s, {i \in 1..Len(s) : s[i] \notin Whitespace})

\* The int of a sign and the text after it: one or more decimal digits, or
\* ValueError.
SignedInt(sign, d) ==
    IF Len(d) > 0 /\ AllDigits(d)
    THEN [ok |-> TRUE, val |-> (IF sign = "-" THEN -1 ELSE 1) * DigitsVal(d)]
    ELSE [ok |-> FALSE, val |-> 0]

IntOfStripped(t) ==
    IF Len(t) > 0 /\ t[1] \in {"-", "+"}
    THEN SignedInt(t[1], SubSeq(t, 2, Len(t)))
    ELSE SignedInt("+", t)

\* int(s) of a str: surrounding whitespace is ignored, one sign is allowed,
\* then one or more decimal digits; anything else raises ValueError.
\* (The underscore digit separator is not in the alphabet of the model.)
IntOf(s) == IntOfStripped(Strip(s))

StartsAt(s, p, lit) ==
    /\ p >= 1
    /\ p + Len(lit) - 1 <= Len(s)
    /\ SubSeq(s, p, p + Len(lit) - 1) = lit

MinOrZero(S) == IF S = {} THEN 0 ELSE Min(S)

\* The index of the first occurrence of sep in s, 0 if there is none.
Find(s, sep) == MinOrZero({i \in 1..Len(s) : StartsAt(s, i, sep)})

\* s.split(sep) with an explicit separator: occurrences are taken left to
\* right without overlap, and empty fragments are kept.  SplitAt cuts at
\* the first occurrence, at index i.
RECURSIVE Split(_, _)
RECURSIVE SplitAt(_, _, _)
SplitAt(s, sep, i) ==
    IF i = 0 THEN <<s>>
    ELSE <<SubSeq(s, 1, i - 1)>> \o Split(SubSeq(s, i + Len(sep), Len(s)), sep)
Split(s, sep) == SplitAt(s, sep, Find(s, sep))

\* f.readlines(): the text cut after each newline; a last line without a
\* newline is a line too.  LinesAt cuts after the first newline, at index i.
RECURSIVE ReadLines(_)
RECURSIVE LinesAt(_, _)
LinesAt(text, i) ==
    IF Len(text) = 0 THEN <<>>
    ELSE IF i = 0 THEN <<text>>
    ELSE <<SubSeq(text, 1, i)>> \o ReadLines(SubSeq(text, i + 1, Len(text)))
ReadLines(text) == LinesAt(text, Find(text, NL))

RECURSIVE Concat(_)
Concat(ss) == IF Len(ss) = 0 THEN <<>> ELSE Head(ss) \o Concat(Tail(ss))

SeqsUpTo(S, lo, hi) == UNION {[1..n -> S] : n \in lo..hi}

(***************************************************************************)
(* The encoder: handle_input and write_temp_input_file.                    *)
(*                                                                         *)
(* input_direct is [type, seqs, strs, text]: type is the Python type of    *)
(* the object; a list holds sequences of itemsets of ints (seqs) or        *)
(* strings (strs); text is the value of a str.                             *)
(***************************************************************************)
TXT == <<".", "t", "x", "t">>
TEXT == <<".", "t", "e", "x", "t">>

\* tempfile.NamedTemporaryFile(delete=False): a name no earlier file has.
TempName(files) == <<"t", "m", "p">> \o NatStr(Len(files) + 1)

\* write_temp_input_file: the file is created under a fresh name, written,
\* renamed to carry the ending, and the new name is returned.
write_temp_input_file(files, input_text, file_ending) ==
    [exc |-> "none",
     ret |-> TempName(files) \o file_ending,
     files |-> Append(files, [name |-> TempName(files) \o file_ending,
                              text |-> input_text])]

\* EncodeItemset with the items joined by spaces instead of each followed by
\* one: the sentinel is glued to the last item.
EncodeItemset_Joined(item_set) ==
    Concat([i \in 1..Len(item_set) |->
              IF i < Len(item_set) THEN Str(item_set[i]) \o SP ELSE Str(item_set[i])])
    \o Str(-1) \o SP

\* Lines 70-72: every item followed by a space, then str(-1) and a space.
EncodeItemset(item_set) ==
    Concat([i \in 1..Len(item_set) |-> Str(item_set[i]) \o SP]) \o Str(-1) \o SP

\* EncodeSeq with an empty itemset skipped, sentinel and all.
EncodeSeq_SkipsEmpty(seq) ==
    Concat([i \in 1..Len(seq) |->
              IF seq[i] = <<>> THEN <<>> ELSE EncodeItemset(seq[i])])
    \o Str(-2) \o NL

\* Lines 69-73: the itemsets of a sequence, then str(-2) and a newline.
EncodeSeq(seq) ==
    Concat([i \in 1..Len(seq) |-> EncodeItemset(seq[i])]) \o Str(-2) \o NL

\* Lines 67-73, for a list of sequences of itemsets of ints.
EncodeNormal(seqs) == Concat([i \in 1..Len(seqs) |-> EncodeSeq(seqs[i])])

\* Lines 67-73, for a list of strings: iterating a str gives its characters
\* and iterating a character gives the character, so that each character is
\* an itemset of one item.
EncodeNormalStrs(strs) ==
    Concat([i \in 1..Len(strs) |->
              Concat([j \in 1..Len(strs[i]) |-> <<strs[i][j]>> \o SP \o Str(-1) \o SP])
              \o Str(-2) \o NL])

\* Lines 76-78, for a list of strings: each followed by ". ".
EncodeText(strs) == Concat([i \in 1..Len(strs) |-> strs[i] \o <<".", " ">>])

Raise(files, e) == [exc |-> e, ret |-> <<>>, files |-> files]

\* handle_input with the type checks before the test of the file name.
handle_input_DirectFirst(files, direct, filename, type) ==
    IF direct.type = "str" THEN
        IF type = "normal" THEN write_temp_input_file(files, direct.text, TXT)
        ELSE IF type = "text" THEN write_temp_input_file(files, direct.text, TEXT)
        ELSE Raise(files, "UnboundLocalError")
    ELSE IF direct.type = "list" /\ type = "normal" THEN
        write_temp_input_file(files,
            IF direct.strs # <<>> THEN EncodeNormalStrs(direct.strs)
            ELSE EncodeNormal(direct.seqs), TXT)
    ELSE IF direct.type = "list" /\ type = "text" THEN
        IF direct.seqs # <<>> THEN Raise(files, "TypeError")
        ELSE write_temp_input_file(files, EncodeText(direct.strs), TEXT)
    ELSE IF filename # <<>> THEN [exc |-> "none", ret |-> filename, files |-> files]
    ELSE Raise(files, "TypeError")

\* Lines 55-82.
handle_input(files, direct, filename, type) ==
    IF filename # <<>> THEN [exc |-> "none", ret |-> filename, files |-> files]
    ELSE IF direct.type = "str" THEN
        IF type = "normal" THEN write_temp_input_file(files, direct.text, TXT)
        ELSE IF type = "text" THEN write_temp_input_file(files, direct.text, TEXT)
        ELSE Raise(files, "UnboundLocalError")   \* file_ending was never bound
    ELSE IF direct.type = "list" /\ type = "normal" THEN
        write_temp_input_file(files,
            IF direct.strs # <<>> THEN EncodeNormalStrs(direct.strs)
            ELSE EncodeNormal(direct.seqs), TXT)
    ELSE IF direct.type = "list" /\ type = "text" THEN
        IF direct.seqs # <<>> THEN Raise(files, "TypeError")  \* list + str, line 78
        ELSE write_temp_input_file(files, EncodeText(direct.strs), TEXT)
    ELSE Raise(files, "TypeError")

(***************************************************************************)
(* The inputs of the encoder.                                              *)
(***************************************************************************)
ItemsetChoices == SeqsUpTo(Items, 0, MaxItemsetLen)
SequenceChoices == SeqsUpTo(ItemsetChoices, 0, MaxItemsets)

\* Inputs beyond the bounds: the scenario of the specification, and inputs
\* with an empty itemset between others and an empty sequence between others.
ExampleInputs ==
    { << << <<1, 2>>, <<3>> >>, << <<1>>, <<3>> >> >>,
      << << <<12>>, <<>>, <<1, 12>> >> >>,
      << << <<1>> >>, <<>>, << <<>>, <<12>> >> >>,
      << <<>>, <<>> >> }

NormalLists == SeqsUpTo(SequenceChoices, 0, MaxSeqs) \cup ExampleInputs

TextLists == { << <<"a", "b">> >>, << <<"a", "b">>, <<"c">> >> }
RawTexts == { <<"1", " ", "-", "1", " ", "-", "2", "\n">>, <<"a", "b">> }

PyList(seqs, strs) == [type |-> "list", seqs |-> seqs, strs |-> strs, text |-> <<>>]
PyStr(text) == [type |-> "str", seqs |-> <<>>, strs |-> <<>>, text |-> text]
PyOther(t) == [type |-> t, seqs |-> <<>>, strs |-> <<>>, text |-> <<>>]

DirectInputs ==
    {PyList(s, <<>>) : s \in NormalLists}
    \cup {PyList(<<>>, t) : t \in TextLists}
    \cup {PyStr(x) : x \in RawTexts}
    \cup {PyOther(t) : t \in {"NoneType", "tuple"}}

InputTypes == {"normal", "text", "other"}
InFile == <<"i", "n", ".", "t", "x", "t">>
Filenames == {<<>>, InFile}

(***************************************************************************)
(* The object before and after construction.                               *)
(***************************************************************************)
NoArgs == [pickle |-> FALSE, df |-> None, list_as_string |-> FALSE]

\* The fields no __init__ argument decides, as line 51-52 set them, and the
\* world around a new object: no command was run, no export was written.
Fresh ==
    /\ cmd = <<>>
    /\ parsed_output_ = <<>>
    /\ df_ = None
    /\ pkl_file = None
    /\ csv_file = None
    /\ call_args = NoArgs
    /\ decoded = FALSE
    /\ exc = "none"

\* Spmf(...) is about to be called with these arguments.
EncodeInit ==
    /\ is_exist_executable_ \in BOOLEAN
    /\ input_direct \in DirectInputs
    /\ input_type \in InputTypes
    /\ input_filename \in Filenames
    /\ input_ = <<>>
    /\ tempfiles = <<>>
    /\ memory_ = 0
    /\ arguments_ = <<>>
    /\ engine_lines = <<>>
    /\ output_file = NoFile
    /\ Fresh
    /\ lastOp = "new"

\* Lines 47-48: self.input_ is what handle_input returned, r; an exception
\* of it leaves __init__.
Constructing(r) ==
    /\ exc' = r.exc
    /\ input_' = r.ret
    /\ tempfiles' = r.files

\* __init__, lines 31-53: FileNotFoundError without the jar, else whatever
\* handle_input raises or returns.
Construct ==
    /\ lastOp = "new"
    /\ lastOp' = "__init__"
    /\ IF ~is_exist_executable_
       THEN /\ exc' = "FileNotFoundError"
            /\ UNCHANGED <<input_, tempfiles>>
       ELSE Constructing(handle_input(tempfiles, input_direct, input_filename,
                                      input_type))
    /\ parsed_output_' = <<>>
    /\ df_' = None
    /\ UNCHANGED <<is_exist_executable_, input_direct, input_type, input_filename,
                   memory_, arguments_, cmd, engine_lines, output_file, pkl_file,
                   csv_file, call_args, decoded>>

EncodeNext == Construct

SpecEncode == EncodeInit /\ [][EncodeNext]_vars

(***************************************************************************)
(* The decoder: parse_output.                                              *)
(***************************************************************************)
SUP == <<"#", "S", "U", "P", ":", " ">>
SID == <<" ", "#", "S", "I", "D", ":", " ">>
MARK == <<"-", "2", " ">>
SEP == <<" ", "-", "1", " ">>

NoNewline(s) == \A i \in 1..Len(s) : s[i] # "\n"

\* The number of digits of s from position q on.
DigitRun(s, q) ==
    Min({i \in q..Len(s) + 1 : i = Len(s) + 1 \/ ~IsDigit(s[i])}) - q

NoTail == [ok |-> FALSE, support |-> <<>>, sequence_ids |-> <<>>]

\* The tail of the expression, "#SUP: (\d+) #SID: (.+)$", matched from
\* position p of the line, with d the digits there are after "#SUP: ".
\* \d+ takes them all, and giving some back cannot help, since a space
\* must follow.
TailWith(line, p, d) ==
    IF /\ StartsAt(line, p, SUP)
       /\ d >= 1
       /\ StartsAt(line, p + Len(SUP) + d, SID)
       /\ p + Len(SUP) + d + Len(SID) <= Len(line)
       /\ NoNewline(SubSeq(line, p + Len(SUP) + d + Len(SID), Len(line)))
    THEN [ok |-> TRUE,
          support |-> SubSeq(line, p + Len(SUP), p + Len(SUP) + d - 1),
          sequence_ids |-> SubSeq(line, p + Len(SUP) + d + Len(SID), Len(line))]
    ELSE NoTail

TailAt(line, p) == TailWith(line, p, DigitRun(line, p + Len(SUP)))

\* Group 1 ends at e and group 2 takes "-2 ", or group 2 is left out.
WithMark(line, e) == StartsAt(line, e + 1, MARK) /\ TailAt(line, e + 1 + Len(MARK)).ok
WithoutMark(line, e) == TailAt(line, e + 1).ok

\* The ends of group 1, "(.+)", from which the rest of the expression matches.
Ends(line) ==
    {e \in 1..Len(line) :
        NoNewline(SubSeq(line, 1, e)) /\ (WithMark(line, e) \/ WithoutMark(line, e))}

NoMatch == [matched |-> FALSE, pattern |-> <<>>, mark |-> FALSE,
            support |-> <<>>, sequence_ids |-> <<>>]

Groups(line, e, mark, tail) ==
    [matched |-> TRUE, pattern |-> SubSeq(line, 1, e), mark |-> mark,
     support |-> tail.support, sequence_ids |-> tail.sequence_ids]

\* The groups of the match whose group 1 ends at e: the optional group 2 is
\* tried first.
GroupsAt(line, e) ==
    IF WithMark(line, e) THEN Groups(line, e, TRUE, TailAt(line, e + 1 + Len(MARK)))
    ELSE Groups(line, e, FALSE, TailAt(line, e + 1))

\* Group 1 is greedy: of its possible ends the last is taken.
GreedyMatch(line, ends) == IF ends = {} THEN NoMatch ELSE GroupsAt(line, Max(ends))

\* re.search(r'^(.+)(-2 )?#SUP: (\d+) #SID: (.+)$', line), line 130.
re_search(line) == GreedyMatch(line, Ends(line))

\* The ints of the results of int(), or ValueError if one raised it.
AllInts(rs) ==
    IF \A i \in 1..Len(rs) : rs[i].ok
    THEN [ok |-> TRUE, val |-> [i \in 1..Len(rs) |-> rs[i].val]]
    ELSE [ok |-> FALSE, val |-> <<>>]

\* list(map(int, ...)): the ints of the fragments, or ValueError.
IntsOf(frags) == AllInts([i \in 1..Len(frags) |-> IntOf(frags[i])])

\* Lines 134-137: the tuple of the three converted groups.
PatternTuple(pattern, support, sequence_ids) ==
    IF ~pattern.ok \/ ~support.ok \/ ~sequence_ids.ok
    THEN [exc |-> "ValueError", val |-> <<>>]
    ELSE [exc |-> "none", val |-> <<pattern.val, support.val, sequence_ids.val>>]

\* Lines 131-137: RuntimeError without a match; else the pattern group is
\* split at " -1 ", its empty fragments are dropped and the rest converted,
\* and the sequence ids are split at each space and converted.
DecodeMatch(match) ==
    IF ~match.matched THEN [exc |-> "RuntimeError", val |-> <<>>]
    ELSE PatternTuple(
            IntsOf(SelectSeq(Split(match.pattern, SEP), LAMBDA f : Len(f) > 0)),
            IntOf(match.support),
            IntsOf(Split(match.sequence_ids, SP)))

\* Lines 129-137, one line of the file: the tuple (pattern, support,
\* sequence_ids), or the exception raised.
DecodeLine(raw) == DecodeMatch(re_search(Strip(raw)))

\* The loop of lines 127-137: the tuples of the lines in order, or the
\* exception of the first line that raises one.  d is the result of the
\* first of the lines.
RECURSIVE DecodeLines(_, _)
RECURSIVE DecodeRest(_, _, _)
DecodeRest(lines, done, d) ==
    IF d.exc # "none" THEN [exc |-> d.exc, val |-> <<>>]
    ELSE DecodeLines(Tail(lines), Append(done, d.val))
DecodeLines(lines, done) ==
    IF lines = <<>> THEN [exc |-> "none", val |-> done]
    ELSE DecodeRest(lines, done, DecodeLine(Head(lines)))

\* Lines 123-137 on a file [exists, text]: open() raises FileNotFoundError
\* when there is no file.
Decode(file) ==
    IF ~file.exists THEN [exc |-> "FileNotFoundError", val |-> <<>>]
    ELSE DecodeLines(ReadLines(file.text), <<>>)

(***************************************************************************)
(* The output artifact.  The engine is not part of the program: what it    *)
(* writes is an input of the model, kept line by line in engine_lines as   *)
(* structure and in output_file as the text the decoder reads.  A line is  *)
(* a pattern line of the output format (itemsets of items, each itemset    *)
(* ended by -1, an optional -2, the support and the sequence ids) or a     *)
(* line of some other text.                                                *)
(***************************************************************************)
PatternLine(itemsets, mark, sup, sids) ==
    [kind |-> "pattern", itemsets |-> itemsets, mark |-> mark, sup |-> sup,
     sids |-> sids, text |-> <<>>]

OtherLine(text) ==
    [kind |-> "other", itemsets |-> <<>>, mark |-> FALSE, sup |-> 0,
     sids |-> <<>>, text |-> text]

\* "<item> <item> -1 <item> -1 [-2 ]#SUP: <int> #SID: <int> <int>"
RenderLine(l) ==
    IF l.kind = "other" THEN l.text
    ELSE Concat([i \in 1..Len(l.itemsets) |->
                   Concat([j \in 1..Len(l.itemsets[i]) |->
                             NatStr(l.itemsets[i][j]) \o SP])
                   \o <<"-", "1", " ">>])
         \o (IF l.mark THEN MARK ELSE <<>>)
         \o SUP \o NatStr(l.sup) \o <<" ", "#", "S", "I", "D", ":">>
         \o Concat([i \in 1..Len(l.sids) |-> SP \o NatStr(l.sids[i])])

\* The file the engine leaves: one line of text per line, each with its newline.
ArtifactFile(lines) ==
    [exists |-> TRUE, text |-> Concat([i \in 1..Len(lines) |-> RenderLine(lines[i]) \o NL])]

\* The pattern lines given to the decoder alone.
OutItemsets == SeqsUpTo(OutItems, 1, MaxOutItemsetLen)
OutItemsetSeqs == SeqsUpTo(OutItemsets, 1, MaxOutItemsets)
OutAnnotations == {<<2, <<0, 1>> >>, <<10, <<3>> >>}
ScenarioLine == PatternLine(<< <<1, 2>>, <<3>> >>, FALSE, 2, <<0, 1>>)
ScenarioLineMarked == PatternLine(<< <<1, 2>>, <<3>> >>, TRUE, 1, <<0>>)
OutLines ==
    {PatternLine(is, m, a[1], a[2]) :
        is \in OutItemsetSeqs, m \in BOOLEAN, a \in OutAnnotations}
    \cup {ScenarioLine, ScenarioLineMarked}
OutArtifacts == SeqsUpTo(OutLines, 0, MaxOutLines)

(***************************************************************************)
(* The methods of a constructed object.                                    *)
(***************************************************************************)
Constructed == lastOp # "new" /\ ~(lastOp = "__init__" /\ exc # "none")

\* The object as Spmf(name, input_filename="in.txt") leaves it.
AfterInit ==
    /\ is_exist_executable_ = TRUE
    /\ input_direct = PyOther("NoneType")
    /\ input_type = "normal"
    /\ input_filename = InFile
    /\ input_ = InFile
    /\ tempfiles = <<>>
    /\ arguments_ = <<>>
    /\ Fresh
    /\ lastOp = "__init__"

\* parse_output, lines 116-139: parsed_output_ is assigned after the loop,
\* so an exception leaves it as it was.
Parsing(r) ==
    /\ exc' = r.exc
    /\ parsed_output_' = IF r.exc = "none" THEN r.val ELSE parsed_output_

parse_output ==
    /\ Constructed
    /\ Parsing(Decode(output_file))
    /\ decoded' = TRUE
    /\ lastOp' = "parse_output"
    /\ UNCHANGED <<is_exist_executable_, input_direct, input_type, input_filename,
                   input_, tempfiles, memory_, arguments_, cmd, engine_lines,
                   output_file, df_, pkl_file, csv_file, call_args>>

\* The command of run(), lines 96-108.  "if self.memory_:" is the truth
\* value of an int: any number but 0.
JAVA == <<"j", "a", "v", "a">>
JAR == <<"-", "j", "a", "r">>
RUN == <<"r", "u", "n">>
EXECUTABLE == <<".", "/", "s", "p", "m", "f", ".", "j", "a", "r">>     \* os.path.join(".", "spmf.jar")
ALGORITHM == <<"P", "r", "e", "f", "i", "x", "S", "p", "a", "n">>
OUTPUT == <<"s", "p", "m", "f", "-", "o", "u", "t", "p", "u", "t", ".", "t", "x", "t">>

Command(memory, input, arguments) ==
    <<JAVA>>
    \o (IF memory # 0 THEN << <<"-", "X", "m", "x">> \o Str(memory) \o <<"m">> >> ELSE <<>>)
    \o <<JAR, EXECUTABLE, RUN, ALGORITHM, input, OUTPUT>>
    \o arguments

\* The lines of the artifacts of the object's life cycle: a pattern line,
\* a line the expression of line 130 rejects, and a line it accepts with a
\* sequence id that is no integer.
LineA == PatternLine(<< <<1>>, <<3>> >>, FALSE, 2, <<0, 1>>)
LineG == OtherLine(<<"g", "a", "r", "b", "a", "g", "e", " ", "l", "i", "n", "e", " ", "w", "i", "t", "h", "o", "u", "t", " ", "s", "e", "n", "t", "i", "n", "e", "l">>)
LineX == OtherLine(<<"1", " ", "-", "1", " ", "#", "S", "U", "P", ":", " ", "2", " ", "#", "S", "I", "D", ":", " ", "x">>)
LifeLines == {LineA, LineG, LineX}
LifeArtifacts == SeqsUpTo(LifeLines, 0, MaxLines)

\* run(), lines 91-114.  The engine is started with the command; it ends
\* with a non-zero status (check_output raises CalledProcessError), prints
\* java.lang.IllegalArgumentException (TypeError), or ends well.  run()
\* does not look at the output artifact: the engine has written one or has
\* left the file as it was.
run ==
    /\ Constructed
    /\ cmd' = Command(memory_, input_, arguments_)
    /\ exc' \in {"none", "CalledProcessError", "TypeError"}
    /\ \/ \E a \in LifeArtifacts :
             /\ engine_lines' = a
             /\ output_file' = ArtifactFile(a)
       \/ UNCHANGED <<engine_lines, output_file>>
    /\ decoded' = FALSE
    /\ lastOp' = "run"
    /\ UNCHANGED <<is_exist_executable_, input_direct, input_type, input_filename,
                   input_, tempfiles, memory_, arguments_, parsed_output_, df_,
                   pkl_file, csv_file, call_args>>

\* Something else than this object rewrites or removes the output artifact:
\* its path is the caller's, and nothing keeps other writers away.
ArtifactChanged ==
    /\ Constructed
    /\ \/ \E a \in LifeArtifacts :
             /\ engine_lines' = a
             /\ output_file' = ArtifactFile(a)
       \/ /\ engine_lines' = <<>>
          /\ output_file' = NoFile
    /\ decoded' = FALSE
    /\ exc' = "none"
    /\ lastOp' = "artifact_changed"
    /\ UNCHANGED <<is_exist_executable_, input_direct, input_type, input_filename,
                   input_, tempfiles, memory_, arguments_, cmd, parsed_output_, df_,
                   pkl_file, csv_file, call_args>>

\* self.parse_output() called from another method: r is what the decoder
\* gave, and parsed_output_ is assigned unless it raised.
Reparsed(parsed, r) ==
    [exc |-> r.exc, val |-> IF r.exc = "none" THEN r.val ELSE parsed, read |-> TRUE]

\* Lines 148-149 with the decoder always run.
ParsedOrDecode_Always(parsed, file) == Reparsed(parsed, Decode(file))

\* Lines 148-149: "if not self.parsed_output_: self.parse_output()".  An
\* empty list is false; the decoder runs then and only then.
ParsedOrDecode(parsed, file) ==
    IF parsed = <<>> THEN Reparsed(parsed, Decode(file))
    ELSE [exc |-> "none", val |-> parsed, read |-> FALSE]

\* Lines 151-155: a row per tuple of parsed_output_.
RowsOf(parsed) ==
    [i \in 1..Len(parsed) |->
        [pattern |-> parsed[i][1], sup |-> parsed[i][2], sequence_ids |-> parsed[i][3]]]

\* Lines 151-160, with r what lines 148-149 gave: the DataFrame is built
\* from parsed_output_, kept in df_, and pickled if asked.
Framing(pickle, r) ==
    /\ exc' = r.exc
    /\ decoded' = r.read
    /\ parsed_output_' = r.val
    /\ IF r.exc # "none" THEN UNCHANGED <<df_, pkl_file>>
       ELSE /\ df_' = DataFrame(RowsOf(r.val))
            /\ pkl_file' = IF pickle THEN df_' ELSE pkl_file

\* to_pandas_dataframe(pickle), lines 141-160.
to_pandas_dataframe(pickle) ==
    /\ Constructed
    /\ Framing(pickle, ParsedOrDecode(parsed_output_, output_file))
    /\ call_args' = [pickle |-> pickle, df |-> None, list_as_string |-> FALSE]
    /\ lastOp' = "to_pandas_dataframe"
    /\ UNCHANGED <<is_exist_executable_, input_direct, input_type, input_filename,
                   input_, tempfiles, memory_, arguments_, cmd, engine_lines,
                   output_file, csv_file>>

\* The object's life cycle: constructed with an input file, no engine run yet.
Init ==
    /\ AfterInit
    /\ memory_ = 0
    /\ engine_lines = <<>>
    /\ output_file = NoFile

Next ==
    \/ run
    \/ ArtifactChanged
    \/ parse_output
    \/ \E pickle \in BOOLEAN : to_pandas_dataframe(pickle)

Spec == Init /\ [][Next]_vars

\* ','.join(row['pattern']), line 180, raises TypeError at the first item
\* that is no str.  The items of a pattern are ints (line 134), so the loop
\* of lines 179-180 raises at the first row whose pattern has an item.
JoinRaises(frame) == \E i \in 1..Len(frame.rows) : Len(frame.rows[i].pattern) > 0

\* df.to_csv(...): the rows of the frame, the pattern cell being the list
\* the frame holds.  The assignment of line 180 is to the row iterrows()
\* yields, a copy; were a pattern joined, the frame would still hold the list.
CsvOf(frame) ==
    DataFrame([i \in 1..Len(frame.rows) |->
                 [pattern |-> [joined |-> FALSE, items |-> frame.rows[i].pattern],
                  sup |-> frame.rows[i].sup,
                  sequence_ids |-> frame.rows[i].sequence_ids]])

\* Lines 172-182, with frame the value of self.df_ by then.
Writing(list_as_string, frame) ==
    /\ df_' = frame
    /\ IF list_as_string /\ JoinRaises(frame)
       THEN /\ exc' = "TypeError"
            /\ UNCHANGED csv_file
       ELSE /\ exc' = "none"
            /\ csv_file' = CsvOf(frame)

\* Lines 169-182, with r what to_pandas_dataframe() did at line 170 if it
\* was called: an exception of the decoder leaves to_csv there.
Exporting(df, list_as_string, r) ==
    /\ decoded' = r.read
    /\ parsed_output_' = r.val
    /\ IF r.exc # "none"
       THEN /\ exc' = r.exc
            /\ UNCHANGED <<df_, csv_file>>
       ELSE Writing(list_as_string,
                    IF df # None THEN df
                    ELSE IF df_ = None THEN DataFrame(RowsOf(r.val))
                    ELSE df_)

\* to_csv(file_name, df, list_as_string), lines 162-182.
to_csv(df, list_as_string) ==
    /\ Constructed
    /\ Exporting(df, list_as_string,
                 IF df_ = None /\ df = None
                 THEN ParsedOrDecode(parsed_output_, output_file)
                 ELSE [exc |-> "none", val |-> parsed_output_, read |-> FALSE])
    /\ call_args' = [pickle |-> FALSE, df |-> df, list_as_string |-> list_as_string]
    /\ lastOp' = "to_csv"
    /\ UNCHANGED <<is_exist_executable_, input_direct, input_type, input_filename,
                   input_, tempfiles, memory_, arguments_, cmd, engine_lines,
                   output_file, pkl_file>>

\* The frames a caller hands to to_csv: none, an empty one, one of one row.
GivenFrames ==
    {None, DataFrame(<<>>),
     DataFrame(<< [pattern |-> <<12>>, sup |-> 1, sequence_ids |-> <<0>>] >>)}

\* The exports: an artifact is on disk; the decoder and the exports are called.
ExportInit ==
    /\ AfterInit
    /\ memory_ = 0
    /\ engine_lines \in LifeArtifacts
    /\ output_file = ArtifactFile(engine_lines)

ExportNext ==
    \/ parse_output
    \/ \E pickle \in BOOLEAN : to_pandas_dataframe(pickle)
    \/ \E df \in GivenFrames, list_as_string \in BOOLEAN : to_csv(df, list_as_string)

SpecExport == ExportInit /\ [][ExportNext]_vars

\* The command alone: objects of several memory budgets and extra
\* arguments, and run() is called.
MemoryValues == {-512, -1, 0, 1, 512, 2048}
ArgValues == {<<"0", ".", "5">>, <<"3">>}
ArgLists == SeqsUpTo(ArgValues, 0, MaxArgs)

RunInit ==
    /\ is_exist_executable_ = TRUE
    /\ input_direct = PyOther("NoneType")
    /\ input_type = "normal"
    /\ input_filename = InFile
    /\ input_ = InFile
    /\ tempfiles = <<>>
    /\ memory_ \in MemoryValues
    /\ arguments_ \in ArgLists
    /\ engine_lines = <<>>
    /\ output_file = NoFile
    /\ Fresh
    /\ lastOp = "__init__"

RunNext == run

SpecRun == RunInit /\ [][RunNext]_vars

\* The decoder alone: an artifact is on disk and parse_output is called.
DecodeInit ==
    /\ AfterInit
    /\ memory_ = 0
    /\ engine_lines \in OutArtifacts
    /\ output_file = ArtifactFile(engine_lines)

DecodeNext == parse_output

SpecDecode == DecodeInit /\ [][DecodeNext]_vars

(***************************************************************************)
(* Claims about the encoder, checked under SpecEncode.                     *)
(***************************************************************************)
\* The object was constructed from a list of sequences of itemsets of ints
\* in normal mode, with no input file named.
EncodedNormalList ==
    /\ lastOp = "__init__"
    /\ is_exist_executable_
    /\ input_filename = <<>>
    /\ input_type = "normal"
    /\ input_direct.type = "list"
    /\ input_direct.strs = <<>>

\* The decimal numerals of the items of the model, written out.
Numeral(n) ==
    CASE n = 0 -> <<"0">>
      [] n = 1 -> <<"1">>
      [] n = 2 -> <<"2">>
      [] n = 3 -> <<"3">>
      [] n = 12 -> <<"1", "2">>

\* The tokens of a line of the normal format: the items of each itemset and
\* "-1" after each itemset.
RECURSIVE LineTokens(_)
LineTokens(seq) ==
    IF seq = <<>> THEN <<>>
    ELSE [i \in 1..Len(Head(seq)) |-> Numeral(Head(seq)[i])]
         \o << <<"-", "1">> >> \o LineTokens(Tail(seq))

\* The line of a sequence: each token followed by one space, then "-2" and
\* a newline.
RECURSIVE FormatLine(_)
FormatLine(tokens) ==
    IF tokens = <<>> THEN <<"-", "2", "\n">>
    ELSE Head(tokens) \o <<" ">> \o FormatLine(Tail(tokens))

RECURSIVE FormatLines(_)
FormatLines(seqs) ==
    IF seqs = <<>> THEN <<>>
    ELSE FormatLine(LineTokens(Head(seqs))) \o FormatLines(Tail(seqs))

ScenarioInput == << << <<1, 2>>, <<3>> >>, << <<1>>, <<3>> >> >>
ScenarioText ==
    <<"1", " ", "2", " ", "-", "1", " ", "3", " ", "-", "1", " ", "-", "2", "\n",
      "1", " ", "-", "1", " ", "3", " ", "-", "1", " ", "-", "2", "\n">>

\* C5: in normal mode a list input is written as one line per Sequence, in
\* order: every Item of every Itemset followed by a space, "-1" and a space
\* after each Itemset, "-2" and a newline after the last; the scenario
\* [[[1,2],[3]], [[1],[3]]] gives "1 2 -1 3 -1 -2\n1 -1 3 -1 -2\n".
C5_NormalEncoding ==
    EncodedNormalList =>
        /\ exc = "none"
        /\ Len(tempfiles) = 1
        /\ tempfiles[1].text = FormatLines(input_direct.seqs)
        /\ tempfiles[1].name = input_
        /\ input_direct.seqs = ScenarioInput => tempfiles[1].text = ScenarioText

C5_Witness ==
    /\ EncodedNormalList
    /\ input_direct.seqs = ScenarioInput
    /\ Len(tempfiles) = 1
    /\ tempfiles[1].text = ScenarioText

\* Re-tokenizing by hand.  The tokens of a line are its fragments between
\* spaces; "-1" closes an itemset; the line ends with "-2".  Items left
\* after the last "-1" are kept as a last itemset, so that a missing
\* sentinel shows.
TokensOf(line) == SelectSeq(Split(line, SP), LAMBDA t : t # <<>>)

RECURSIVE GroupItemsets(_, _)
GroupItemsets(tokens, open) ==
    IF tokens = <<>> THEN (IF open = <<>> THEN <<>> ELSE <<open>>)
    ELSE IF Head(tokens) = <<"-", "1">>
         THEN <<open>> \o GroupItemsets(Tail(tokens), <<>>)
         ELSE GroupItemsets(Tail(tokens), Append(open, IntOf(Head(tokens)).val))

RetokenizeLine(line) ==
    LET tokens == TokensOf(line)
    IN  IF tokens # <<>> /\ tokens[Len(tokens)] = <<"-", "2">>
        THEN GroupItemsets(SubSeq(tokens, 1, Len(tokens) - 1), <<>>)
        ELSE << <<-2>> >>   \* no end-of-sequence sentinel: no sequence

Retokenize(text) ==
    LET lines == ReadLines(text)
    IN  [i \in 1..Len(lines) |->
           IF lines[i][Len(lines[i])] = "\n"
           THEN RetokenizeLine(SubSeq(lines[i], 1, Len(lines[i]) - 1))
           ELSE << <<-2>> >>]

\* C6: splitting the text handle_input wrote for a list of sequences of
\* itemsets of non-negative items into lines, each line at "-2", each
\* itemset at "-1" and spaces, gives back the nested input, empty itemsets
\* and empty sequences included.
C6_RoundTrip ==
    EncodedNormalList =>
        /\ Len(tempfiles) = 1
        /\ Retokenize(tempfiles[1].text) = input_direct.seqs

C6_Witness ==
    /\ EncodedNormalList
    /\ Len(tempfiles) = 1
    /\ Len(input_direct.seqs) >= 2
    /\ \E i \in 1..Len(input_direct.seqs) : input_direct.seqs[i] = <<>>
    /\ \E i \in 1..Len(input_direct.seqs) :
          \E j \in 1..Len(input_direct.seqs[i]) : input_direct.seqs[i][j] = <<>>
    /\ Retokenize(tempfiles[1].text) = input_direct.seqs

\* C7: with no input file named, an input that is neither a list nor a str
\* raises TypeError with no temporary file created; with an input file
\* named, that path is returned as it is and no temporary file is created,
\* whatever the input is.
C7_InvalidInputOrPassThrough ==
    (lastOp = "__init__" /\ is_exist_executable_) =>
        /\ (input_filename = <<>> /\ input_direct.type \notin {"list", "str"})
              => (exc = "TypeError" /\ tempfiles = <<>>)
        /\ input_filename # <<>>
              => (exc = "none" /\ input_ = input_filename /\ tempfiles = <<>>)

C7_Witness ==
    /\ lastOp = "__init__"
    /\ is_exist_executable_
    /\ input_filename = <<>>
    /\ input_direct.type = "tuple"
    /\ exc = "TypeError"
    /\ tempfiles = <<>>

(***************************************************************************)
(* Claims about the decoder, checked under SpecDecode.                     *)
(***************************************************************************)
Conforming == \A i \in 1..Len(engine_lines) : engine_lines[i].kind = "pattern"
Unmarked == \A i \in 1..Len(engine_lines) : ~engine_lines[i].mark

\* The Pattern of a pattern line: its items flattened in line order, its
\* support, its sequence ids.
Flatten(itemsets) == Concat(itemsets)
ExpectedPattern(l) == <<Flatten(l.itemsets), l.sup, l.sids>>
ExpectedPatterns == [i \in 1..Len(engine_lines) |-> ExpectedPattern(engine_lines[i])]

\* C1: a line of itemsets of one or more items, each itemset ended by -1,
\* then "#SUP: <int> #SID: <ints>", decodes to the Pattern of its flattened
\* items, its support and its sequence ids; "1 2 -1 3 -1 #SUP: 2 #SID: 0 1"
\* decodes to ([1,2,3], 2, [0,1]).
C1_DecodesPatternLine ==
    (lastOp = "parse_output" /\ Conforming /\ Unmarked) =>
        /\ exc = "none"
        /\ parsed_output_ = ExpectedPatterns
        /\ engine_lines = <<ScenarioLine>>
              => parsed_output_ = << <<<<1, 2, 3>>, 2, <<0, 1>>>> >>

\* C2: a pattern line with "-2 " before "#SUP: " decodes to the same
\* elements, support and sequence ids as the line without it, and -2 is
\* never an element.
C2_MarkerIgnored ==
    (lastOp = "parse_output" /\ Conforming) =>
        LET plain == [i \in 1..Len(engine_lines) |->
                        [engine_lines[i] EXCEPT !.mark = FALSE]]
            r == Decode(ArtifactFile(plain))
        IN  /\ exc = r.exc
            /\ exc = "none" =>
                  /\ parsed_output_ = r.val
                  /\ \A i \in 1..Len(parsed_output_) :
                        \A j \in 1..Len(parsed_output_[i][1]) :
                            parsed_output_[i][1][j] # -2

\* C3: an artifact of n >= 0 pattern lines decodes without error to exactly
\* n Patterns, the i-th the Pattern of the i-th line.
C3_OnePatternPerLine ==
    (lastOp = "parse_output" /\ Conforming) =>
        /\ exc = "none"
        /\ Len(parsed_output_) = Len(engine_lines)
        /\ \A i \in 1..Len(engine_lines) :
              parsed_output_[i] = ExpectedPattern(engine_lines[i])

(***************************************************************************)
(* Claims about the object's life cycle, checked under Spec.               *)
(***************************************************************************)
\* C4: if a line of the artifact is no pattern line, parse_output raises
\* RuntimeError and parsed_output_ keeps the value it had before the call.
C4_MalformedLineAborts ==
    [][(lastOp' = "parse_output" /\ ~Conforming)
          => (exc' = "RuntimeError" /\ parsed_output_' = parsed_output_)]_vars

\* C10: to_pandas_dataframe runs the decoder if and only if parsed_output_
\* is empty when it is called; once parsed_output_ is not empty, run() and
\* changes of the artifact leave it as it is, and to_pandas_dataframe
\* returns its rows without reading the artifact.
C10_DecodesOnlyWhenEmpty ==
    [][/\ lastOp' = "to_pandas_dataframe" =>
            /\ decoded' <=> (parsed_output_ = <<>>)
            /\ parsed_output_ # <<>> =>
                  /\ exc' = "none"
                  /\ parsed_output_' = parsed_output_
                  /\ df_' = DataFrame(RowsOf(parsed_output_))
       /\ lastOp' \in {"run", "artifact_changed"} =>
            /\ parsed_output_' = parsed_output_
            /\ df_' = df_
      ]_vars

\* The artifact was rewritten after a decode, and to_pandas_dataframe gave
\* the rows of the earlier decode without reading it.
C10_Witness ==
    /\ lastOp = "to_pandas_dataframe"
    /\ ~decoded
    /\ parsed_output_ # <<>>
    /\ output_file.exists
    /\ Decode(output_file).exc = "none"
    /\ Decode(output_file).val # parsed_output_
    /\ df_ = DataFrame(RowsOf(parsed_output_))

(***************************************************************************)
(* The claim about the command, checked under SpecRun.                     *)
(***************************************************************************)
\* C8: the command is java, the memory flag, -jar, the engine path, run,
\* the algorithm, the input path, the output path and the extra arguments
\* in order, with the flag -Xmx<N>m there if and only if memory_ is positive.
C8_MemoryFlagIffPositive ==
    lastOp = "run" =>
        cmd = <<JAVA>>
              \o (IF memory_ > 0
                  THEN << <<"-", "X", "m", "x">> \o Str(memory_) \o <<"m">> >>
                  ELSE <<>>)
              \o <<JAR, EXECUTABLE, RUN, ALGORITHM, input_, OUTPUT>>
              \o arguments_

(***************************************************************************)
(* The claim about the csv export, checked under SpecExport.               *)
(***************************************************************************)
\* C9: with a parsed result that is not empty, to_csv with list_as_string
\* and no frame given ends without error and writes a row per Pattern, in
\* order, whose pattern field is the items joined by commas.
C9_CsvRowsJoined ==
    (/\ lastOp = "to_csv"
     /\ call_args.list_as_string
     /\ call_args.df = None
     /\ parsed_output_ # <<>>) =>
        /\ exc = "none"
        /\ csv_file =
              DataFrame([i \in 1..Len(parsed_output_) |->
                           [pattern |-> [joined |-> TRUE, items |-> parsed_output_[i][1]],
                            sup |-> parsed_output_[i][2],
                            sequence_ids |-> parsed_output_[i][3]]])

====
